---- MODULE Spec2Model ----
(***************************************************************************)
(* Redirect-chain capture and server classification (src/src/main.ts).     *)
(*                                                                         *)
(* main() launches one browser, cuts the URL list into windows of          *)
(* BATCH_SIZE, runs fetchUrlWithPlaywright for every URL of a window       *)
(* concurrently, awaits Promise.all and appends the window's results.      *)
(* fetchUrlWithPlaywright opens a context, registers an async "response"   *)
(* callback that classifies each navigation response (getServerName, with  *)
(* the DNS fallback resolveIp and the process-wide ipCache) and pushes a   *)
(* hop, awaits page.goto, builds the result and closes the context.        *)
(*                                                                         *)
(* Node runs all of this on one thread: a step of the model is the code    *)
(* that runs between two suspension points (await).                        *)
(*                                                                         *)
(* Besides the checker: main()'s update of history.json, the API handler   *)
(* of src/functions/api.js (and its later variant src/unnamed/part_001)    *)
(* with uploadToGitHub's search for the workflow run, and the frontend's   *)
(* waitForRunId of src/unnamed/part_002, each as a specification of its    *)
(* own over the same variables.                                            *)
(***************************************************************************)
EXTENDS Integers, Sequences, FiniteSets, TLC

\* ------------------------------------------------------------------ bounds
MaxUrls == 7        \* SpecRun: longest URL list
MaxHops == 3        \* Spec: navigation responses observed per navigation
MaxHeaders == 2     \* SpecClassify: headers of a classified response
MaxCalls == 2       \* SpecClassify: calls of getServerName on one input
MaxTime == 2        \* SpecTime: ticks of the clock in a run
MaxRuns == 3        \* SpecHistory: runs of main() on one history.json
MaxLines == 3       \* SpecApi: lines of an upload's payload
MaxTicks == 22      \* SpecFrontend: firings of waitForRunId's interval
MaxInFlight == 2    \* SpecFrontend: polls awaiting their answer at once

\* --------------------------------------------------------------- constants
BATCH_SIZE == 5
HISTORY_LIMIT == 50               \* if (history.length > 50) history = history.slice(0, 50)
MAX_POLLS == 5                    \* for (let i = 0; i < 5; i++)
POLL_WAIT_MS == 3000              \* setTimeout(r, 3000)
FRESH_RUN_MS == 60000               \* (now - runTime) < 60000
maxAttempts == 20                 \* const maxAttempts = 20

\* ------------------------------------------------------------------ strings
\* A string is a sequence of atoms; the atoms are the substrings the code
\* searches for and the text around them.
Includes(s, pat) ==
    \E d \in 0..(Len(s) - Len(pat)) : \A j \in 1..Len(pat) : s[d + j] = pat[j]

LowerAtom(a) ==
    CASE a = "Apache" -> "apache"
      [] a = "Akamai" -> "akamai"
      [] a = "GHost" -> "ghost"
      [] a = "X-Cache" -> "x-cache"
      [] a = "Server" -> "server"
      [] a = "X-Akamai-Request-Id" -> "x-akamai-request-id"
      [] a = "X-Akamai-Staging" -> "x-akamai-staging"
      [] a = "Akamai-Mon-Ibit" -> "akamai-mon-ibit"
      [] a = "X-Dispatcher" -> "x-dispatcher"
      [] a = "X-Aem-Instance" -> "x-aem-instance"
      [] a = "Cache-Control" -> "cache-control"
      [] a = "Server-Timing" -> "server-timing"
      [] OTHER -> a

\* A string compared as it is, without toLowerCase().
ToLowerCase_AsIs(s) == s

ToLowerCase(s) == [j \in 1..Len(s) |-> LowerAtom(s[j])]

\* ----------------------------------------------------- server identification
ServerType == [AKAMAI |-> "Akamai", AEM |-> "Apache (AEM)", UNKNOWN |-> "Unknown"]

\* An IPv4 address or network base is its four octets; a CIDR block is a base
\* and a prefix length.
AKAMAI_IP_RANGES ==
    << [base |-> <<23, 192, 0, 0>>, bits |-> 11],
       [base |-> <<104, 64, 0, 0>>, bits |-> 10],
       [base |-> <<184, 24, 0, 0>>, bits |-> 13] >>

NoIp == <<>>                      \* null / no cache entry

Pow2(n) == IF n = 0 THEN 1 ELSE IF n = 1 THEN 2 ELSE IF n = 2 THEN 4
           ELSE IF n = 3 THEN 8 ELSE IF n = 4 THEN 16 ELSE IF n = 5 THEN 32
           ELSE IF n = 6 THEN 64 ELSE IF n = 7 THEN 128 ELSE 256

\* A range check that compares the first octet only.
ipRangeCheck_FirstOctet(ip, cidr) == ip[1] = cidr.base[1]

\* ipRangeCheck(ip, cidr): the first `bits` bits of ip and of the base agree.
ipRangeCheck(ip, cidr) ==
    \A o \in 1..4 :
        LET covered == cidr.bits - 8 * (o - 1)
            nb == IF covered < 0 THEN 0 ELSE IF covered > 8 THEN 8 ELSE covered
        IN  ip[o] \div Pow2(8 - nb) = cidr.base[o] \div Pow2(8 - nb)

\* isAkamaiIp without `if (!ip) return false`, null counting as inside.
isAkamaiIp_NullInside(ip) ==
    IF ip = NoIp THEN TRUE
    ELSE \E c \in 1..Len(AKAMAI_IP_RANGES) : ipRangeCheck(ip, AKAMAI_IP_RANGES[c])

isAkamaiIp(ip) ==
    IF ip = NoIp THEN FALSE
    ELSE \E c \in 1..Len(AKAMAI_IP_RANGES) : ipRangeCheck(ip, AKAMAI_IP_RANGES[c])

\* lowerHeaders without k.toLowerCase(): the names as they were sent.
LowerHeaders_AsIs(headers) ==
    LET names == {headers[j].k : j \in 1..Len(headers)}
        last(n) == CHOOSE j \in 1..Len(headers) :
                      /\ headers[j].k = n
                      /\ \A m \in (j + 1)..Len(headers) : headers[m].k # n
    IN  [n \in names |-> headers[last(n)].v]

\* Headers are the entries of a Record<string, string> in insertion order:
\* a sequence of [k |-> name, v |-> value], the names pairwise different.
\* lowerHeaders maps each lower-cased name to the value of the last entry
\* that has it (Object.fromEntries keeps the last of equal keys).
LowerHeaders(headers) ==
    LET names == {LowerAtom(headers[j].k) : j \in 1..Len(headers)}
        last(n) == CHOOSE j \in 1..Len(headers) :
                      /\ LowerAtom(headers[j].k) = n
                      /\ \A m \in (j + 1)..Len(headers) : LowerAtom(headers[m].k) # n
    IN  [n \in names |-> headers[last(n)].v]

\* lowerHeaders[name] || "" : an absent header and an empty value both give "".
OrEmpty(lh, name) == IF name \in DOMAIN lh THEN lh[name] ELSE <<>>

\* lowerHeaders[name] used as a condition: present with a non-empty value.
Truthy(lh, name) == name \in DOMAIN lh /\ lh[name] # <<>>

\* new URL(url).hostname for the URLs of the model.
Hostname(url) ==
    CASE url = "https://www.bmw.de/" -> <<"www.", "bmw", ".de">>
      [] url = "https://www.bmw.de/x5" -> <<"www.", "bmw", ".de">>
      [] url = "https://cdn.example.org/" -> <<"cdn.example.org">>
      [] url = "https://minimal.io/" -> <<"mini", "mal.io">>
      [] OTHER -> <<>>

NEEDIP == "await resolveIp"

\* Rule A without the TCP_REFRESH_HIT marker.
IsCacheHit_NoRefresh(xCache) ==
    \/ Includes(xCache, <<"TCP_HIT">>)
    \/ Includes(xCache, <<"TCP_MEM_HIT">>)

\* Rule A without the TCP_MEM_HIT marker.
IsCacheHit_NoMemHit(xCache) ==
    \/ Includes(xCache, <<"TCP_HIT">>)
    \/ Includes(xCache, <<"TCP_REFRESH_HIT">>)

\* Rule A: the x-cache value names a cache hit.
IsCacheHit(xCache) ==
    \/ Includes(xCache, <<"TCP_HIT">>)
    \/ Includes(xCache, <<"TCP_MEM_HIT">>)
    \/ Includes(xCache, <<"TCP_REFRESH_HIT">>)

\* Rule B without the test of x-cache for TCP_MISS.
AkamaiDebugHeaders_NoMissCheck(lowerHeaders, xCache) ==
    \/ Truthy(lowerHeaders, "x-akamai-request-id")
    \/ Truthy(lowerHeaders, "x-akamai-staging")
    \/ Truthy(lowerHeaders, "akamai-mon-ibit")

\* Rule B reading x-akamai-request-id only.
AkamaiDebugHeaders_RequestIdOnly(lowerHeaders, xCache) ==
    /\ Truthy(lowerHeaders, "x-akamai-request-id")
    /\ ~Includes(xCache, <<"TCP_MISS">>)

\* Rule B: one of the Akamai debug headers has a value and x-cache does not
\* say TCP_MISS.
AkamaiDebugHeaders(lowerHeaders, xCache) ==
    /\ \/ Truthy(lowerHeaders, "x-akamai-request-id")
       \/ Truthy(lowerHeaders, "x-akamai-staging")
       \/ Truthy(lowerHeaders, "akamai-mon-ibit")
    /\ ~Includes(xCache, <<"TCP_MISS">>)

\* The origin rule without its hostname test.
IsAemHost_AnyHostname(hostname, lowerHeaders, xCache) ==
    \/ "x-dispatcher" \in DOMAIN lowerHeaders
    \/ "x-aem-instance" \in DOMAIN lowerHeaders
    \/ ("cache-control" \in DOMAIN lowerHeaders /\ xCache = <<>>)

\* The origin rule for BMW/Mini hostnames: a dispatcher or AEM instance
\* header, or cache-control with no x-cache value (!xCache).
IsAemHost(hostname, lowerHeaders, xCache) ==
    /\ hostname # <<>>
    /\ Includes(hostname, <<"bmw">>) \/ Includes(hostname, <<"mini">>)
    /\ \/ "x-dispatcher" \in DOMAIN lowerHeaders
       \/ "x-aem-instance" \in DOMAIN lowerHeaders
       \/ ("cache-control" \in DOMAIN lowerHeaders /\ xCache = <<>>)

\* A server-timing test that never matches.
CdnCacheHit_Never(serverTiming) == FALSE

\* serverTiming.includes("cdn-cache; desc=HIT")
CdnCacheHit(serverTiming) == Includes(serverTiming, <<"cdn-cache; desc=HIT">>)

\* getServerName up to its only await: rules A, B, C, the origin rules and
\* the server-timing fallback. statusCode is a parameter the body never reads.
GetServerNameHeaders(headers, url, statusCode) ==
    LET lowerHeaders == LowerHeaders(headers)
        xCache == OrEmpty(lowerHeaders, "x-cache")
        serverValue == ToLowerCase(OrEmpty(lowerHeaders, "server"))
        hostname == ToLowerCase(Hostname(url))
        serverTiming == OrEmpty(lowerHeaders, "server-timing")
    IN  IF IsCacheHit(xCache)
        THEN ServerType.AKAMAI
        ELSE IF AkamaiDebugHeaders(lowerHeaders, xCache)
        THEN ServerType.AKAMAI
        ELSE IF Includes(serverValue, <<"akamai">>) \/ Includes(serverValue, <<"ghost">>)
        THEN ServerType.AKAMAI
        ELSE IF IsAemHost(hostname, lowerHeaders, xCache)
        THEN ServerType.AEM
        ELSE IF Includes(serverValue, <<"apache">>)
        THEN ServerType.AEM
        ELSE IF CdnCacheHit(serverTiming)
        THEN ServerType.AKAMAI
        ELSE NEEDIP

\* getServerName after `await resolveIp(url)` returned ip (NoIp for null).
GetServerNameIp(headers, ip) ==
    LET xCache == OrEmpty(LowerHeaders(headers), "x-cache")
    IN  IF isAkamaiIp(ip) /\ ~Includes(xCache, <<"TCP_MISS">>)
        THEN ServerType.AKAMAI
        ELSE ServerType.UNKNOWN

\* -------------------------------------------------------------------- state
VARIABLES
    urls,           \* main: the validated URL list
    mainPc,         \* main: where main() is suspended
    i,              \* main: the loop variable of the window loop
    allResults,     \* main: references to the result objects, in push order
    delays,         \* main: inter-batch delays that have elapsed
    windows,        \* main: the batches the loop has started, as URL indices
    browser,        \* the browser: "none", "open", "closed"
    settleOrder,    \* invocations of the current window, in the order they settled
    pc,             \* per invocation: where fetchUrlWithPlaywright is suspended
    context,        \* per invocation: its browser context: "none", "open", "closed"
    page,           \* per invocation: its page exists and its "response" listener is on
    closeCalls,     \* per invocation: calls of context.close()
    caught,         \* per invocation: what its catch block caught, and the hops then
    result,         \* per invocation: the object its return statement built
    redirectChain,  \* per invocation: the redirectChain array (the result refers to it)
    cb,             \* per invocation: its response callbacks, in arrival order
    ipCache,        \* the process-wide hostname -> address map
    lookups,        \* per hostname: dns.lookup calls issued
    unhandled,      \* a response callback's promise was rejected
    site,           \* the web: what each URL answers in this run
    cls,            \* a direct call sequence of getServerName (SpecClassify)
    startTime,      \* per invocation: Date.now() when fetchUrlWithPlaywright began
    now,            \* the clock Date.now() reads
    hist,           \* history.json and the runs of main that have written it
    api,            \* one invocation of the API handler and the GitHub requests it made
    fe              \* the frontend's waitForRunId: its interval and the polls in flight

mainVars == <<urls, mainPc, i, allResults, delays, windows, browser, settleOrder>>
navVars == <<pc, context, page, closeCalls, caught, result, redirectChain, cb, startTime>>
extVars == <<now, hist, api, fe>>
dnsVars == <<ipCache, lookups>>
vars == <<urls, mainPc, i, allResults, delays, windows, browser, settleOrder,
          pc, context, page, closeCalls, caught, result, redirectChain, cb,
          ipCache, lookups, unhandled, site, cls, startTime, now, hist, api, fe>>

\* --------------------------------------------------------------- the inputs
URLS == {"https://www.bmw.de/", "https://www.bmw.de/x5", "https://cdn.example.org/"}
CLS_URLS == {"https://www.bmw.de/", "https://cdn.example.org/", "https://minimal.io/"}
HOSTS == {Hostname(u) : u \in URLS \cup CLS_URLS}

\* Addresses dns.lookup may answer: inside 23.192.0.0/11, just past its end,
\* and inside 184.24.0.0/13.
ADDRESSES == {<<23, 200, 1, 1>>, <<23, 224, 0, 1>>, <<184, 31, 255, 254>>}

NoUrl == ""

\* What the servers answer: per URL the status, the response headers and the
\* URL the response redirects to (NoUrl: the response is the document).
\* SiteDns: two redirects on one hostname with headers that decide nothing
\* (rule 6 resolves the hostname), then a cache hit on the CDN hostname.
\* SiteOrigin: a cache hit, an Apache origin, then headers that decide nothing.
SiteDns ==
    [u \in URLS |->
        CASE u = "https://www.bmw.de/" ->
                [status |-> 301, headers |-> << >>, location |-> "https://www.bmw.de/x5"]
          [] u = "https://www.bmw.de/x5" ->
                [status |-> 302, headers |-> << >>, location |-> "https://cdn.example.org/"]
          [] OTHER ->
                [status |-> 200, location |-> NoUrl,
                 headers |-> << [k |-> "X-Cache", v |-> <<"TCP_HIT", " from a23-1">>] >>] ]

SiteOrigin ==
    [u \in URLS |->
        CASE u = "https://www.bmw.de/" ->
                [status |-> 301, location |-> "https://www.bmw.de/x5",
                 headers |-> << [k |-> "X-Cache", v |-> <<"TCP_MEM_HIT">>] >>]
          [] u = "https://www.bmw.de/x5" ->
                [status |-> 302, location |-> "https://cdn.example.org/",
                 headers |-> << [k |-> "Server", v |-> <<"Apache">>] >>]
          [] OTHER ->
                [status |-> 200, headers |-> << >>, location |-> NoUrl] ]

\* SiteLoop: the two URLs of one hostname redirect to each other.
SiteLoop ==
    [u \in URLS |->
        CASE u = "https://www.bmw.de/" ->
                [status |-> 301, location |-> "https://www.bmw.de/x5",
                 headers |-> << [k |-> "Server", v |-> <<"Akamai", "GHost">>] >>]
          [] u = "https://www.bmw.de/x5" ->
                [status |-> 302, headers |-> << >>, location |-> "https://www.bmw.de/"]
          [] OTHER ->
                [status |-> 200, headers |-> << >>, location |-> NoUrl] ]

SITES == {SiteDns, SiteOrigin, SiteLoop}

\* What the awaited calls of fetchUrlWithPlaywright can throw.
TimeoutError == [name |-> "TimeoutError", message |-> "Timeout 45000ms exceeded."]
TargetClosed == [name |-> "Error", message |-> "Target closed"]
GOTO_ERRORS ==
    { TimeoutError,
      [name |-> "Error", message |-> "net::ERR_TOO_MANY_REDIRECTS"],
      [name |-> "Error", message |-> "net::ERR_NAME_NOT_RESOLVED"] }

Null == "null"
NoStatus == 0                     \* finalStatus null (`status || null`)
NoResult == [originalURL |-> Null]
NoError == [name |-> "none", message |-> ""]
NoCls == [stage |-> "none"]
NoHist == [stage |-> "none"]
NoApi == [stage |-> "none"]
NoFe == [stage |-> "none"]

N == Len(urls)
Alive == mainPc \notin {"fatal", "crashed"}

\* urls.slice(i): the rest of the list in one batch.
Batch_NoEnd == {k \in 1..N : i < k}

\* urls.slice(i, i + BATCH_SIZE), as the indices of its URLs.
Batch == {k \in 1..N : i < k /\ k <= i + BATCH_SIZE}
BatchSeq == [j \in 1..Cardinality(Batch) |-> i + j]

InitWith(list, web) ==
    /\ site = web
    /\ urls = list
    /\ mainPc = "launch"
    /\ i = 0
    /\ allResults = <<>>
    /\ delays = 0
    /\ windows = <<>>
    /\ browser = "none"
    /\ settleOrder = <<>>
    /\ pc = [k \in 1..Len(list) |-> "idle"]
    /\ context = [k \in 1..Len(list) |-> "none"]
    /\ page = [k \in 1..Len(list) |-> FALSE]
    /\ closeCalls = [k \in 1..Len(list) |-> 0]
    /\ caught = [k \in 1..Len(list) |-> [e |-> NoError, chain |-> <<>>]]
    /\ result = [k \in 1..Len(list) |-> NoResult]
    /\ redirectChain = [k \in 1..Len(list) |-> <<>>]
    /\ cb = [k \in 1..Len(list) |-> <<>>]
    /\ ipCache = [h \in HOSTS |-> NoIp]
    /\ lookups = [h \in HOSTS |-> 0]
    /\ unhandled = FALSE
    /\ startTime = [k \in 1..Len(list) |-> 0]
    /\ now = 0

\* The parts of the repository that take no part in a run of the checker.
Idle == hist = NoHist /\ api = NoApi /\ fe = NoFe

\* ------------------------------------------------------------------- main()
\* const browser = await chromium.launch(...)
Launch ==
    /\ mainPc = "launch"
    /\ browser' = "open"
    /\ mainPc' = "loop"
    /\ UNCHANGED <<urls, i, allResults, delays, windows, settleOrder, navVars, dnsVars,
                   unhandled, site, cls, extVars>>

\* chromium.launch rejects: main() rejects and main().catch exits the process.
LaunchFails ==
    /\ mainPc = "launch"
    /\ mainPc' = "fatal"
    /\ UNCHANGED <<urls, i, allResults, delays, windows, browser, settleOrder, navVars,
                   dnsVars, unhandled, site, cls, extVars>>

\* One pass of the loop head: batch.map(url => fetchUrlWithPlaywright(browser, url))
\* runs every invocation of the window up to its first await (browser.newContext).
StartBatch ==
    /\ mainPc = "loop"
    /\ i < N
    /\ pc' = [k \in 1..N |-> IF k \in Batch THEN "newContext" ELSE pc[k]]
    /\ settleOrder' = <<>>
    /\ windows' = Append(windows, BatchSeq)
    /\ startTime' = [k \in 1..N |-> IF k \in Batch THEN now ELSE startTime[k]]
    /\ mainPc' = "batchWait"
    /\ UNCHANGED <<urls, i, allResults, delays, browser, context, page, caught, closeCalls,
                   result, redirectChain, cb, dnsVars, unhandled, site, cls, extVars>>

\* Promise.all as a race: the values in the order the promises settled.
PromiseAll_SettleOrder(batch, settled) == settled

\* Promise.all(batchPromises) for fulfilled promises: the values in the order
\* of the promises, whatever the order in which they settled.
PromiseAll(batch, settled) == batch

\* Promise.any in place of Promise.all: fulfilled with the first invocation.
AllFulfilled_Any(batch) == \E k \in batch : pc[k] = "returned"

\* await Promise.all(batchPromises) is fulfilled when every invocation of
\* the batch has returned its result.
AllFulfilled(batch) == \A k \in batch : pc[k] = "returned"

\* The delay without its test: also after the last batch.
MoreBatches_Always == TRUE

\* if (i + BATCH_SIZE < urls.length)
MoreBatches == i + BATCH_SIZE < N

\* Promise.all fulfilled: allResults.push(...batchResults); then the delay
\* if another window follows, else the loop ends.
BatchSettled ==
    /\ mainPc = "batchWait"
    /\ AllFulfilled(Batch)
    /\ allResults' = allResults \o PromiseAll(BatchSeq, settleOrder)
    /\ IF MoreBatches
       THEN mainPc' = "delay" /\ i' = i /\ settleOrder' = <<>>
       ELSE mainPc' = "browserClose" /\ i' = i + BATCH_SIZE /\ settleOrder' = settleOrder
    /\ UNCHANGED <<urls, delays, windows, browser, navVars, dnsVars, unhandled, site, cls,
                   extVars>>

\* The setTimeout of DELAY_MS fires; i += BATCH_SIZE and the loop test holds.
DelayElapsed ==
    /\ mainPc = "delay"
    /\ delays' = delays + 1
    /\ i' = i + BATCH_SIZE
    /\ mainPc' = "loop"
    /\ UNCHANGED <<urls, allResults, windows, browser, settleOrder, navVars, dnsVars,
                   unhandled, site, cls, extVars>>

\* await browser.close()
BrowserClose ==
    /\ mainPc = "browserClose"
    /\ browser' = "closed"
    /\ mainPc' = "report"
    /\ UNCHANGED <<urls, i, allResults, delays, windows, settleOrder, navVars, dnsVars,
                   unhandled, site, cls, extVars>>

\* The report and the history are written; main() returns.
Report ==
    /\ mainPc = "report"
    /\ mainPc' = "done"
    /\ UNCHANGED <<urls, i, allResults, delays, windows, browser, settleOrder, navVars,
                   dnsVars, unhandled, site, cls, extVars>>

\* -------------------------------------------------- fetchUrlWithPlaywright
\* The catch block without its test for errors.TimeoutError.
ErrorMessage_NoTimeoutTest(e) ==
    IF e.name \in {"TimeoutError", "Error"} THEN e.message
    ELSE "Error"

\* The catch block's errorMessage.
ErrorMessage(e) ==
    IF e.name = "TimeoutError" THEN "Timeout"
    ELSE IF e.name = "Error" THEN e.message
    ELSE "Error"

Last(s) == s[Len(s)]

\* page.url(): the URL of the latest navigation response, about:blank before any.
PageUrl(k) == IF cb[k] = <<>> THEN "about:blank" ELSE Last(cb[k]).url

\* The URL of the next navigation response of invocation k: the seed URL,
\* then the redirect target of the latest response; NoUrl when that was a
\* document.
NextUrl(k) == IF cb[k] = <<>> THEN urls[k] ELSE site[Last(cb[k]).url].location

\* (Date.now() - startTime) / 1000 of invocation k, in ticks of the clock.
Elapsed(k) == now - startTime[k]

\* The object of the try block's return statement.
ReturnValue(k) ==
    LET chain == redirectChain[k] IN
    [ originalURL |-> urls[k],
      finalURL |-> PageUrl(k),
      sourceServer |-> IF chain # <<>> THEN chain[1].server ELSE Null,
      targetServer |-> IF chain # <<>> THEN Last(chain).server ELSE Null,
      finalStatus |-> IF chain # <<>> THEN Last(chain).status ELSE NoStatus,
      totalTime |-> Elapsed(k),
      error |-> Null ]

\* The object of the catch block's return statement.
CatchValue(k, e) ==
    LET chain == redirectChain[k] IN
    [ originalURL |-> urls[k],
      finalURL |-> IF chain # <<>> THEN Last(chain).url ELSE "N/A",
      sourceServer |-> IF chain # <<>> THEN chain[1].server ELSE Null,
      targetServer |-> IF chain # <<>> THEN Last(chain).server ELSE Null,
      finalStatus |-> IF chain # <<>> THEN Last(chain).status ELSE NoStatus,
      totalTime |-> Elapsed(k),
      error |-> ErrorMessage(e) ]

\* The function without its finally block.
FinallyCloses_Never(ctx) == FALSE

\* finally { if (context) await context.close(); }
\* TRUE when the block calls close and suspends, FALSE when it falls through.
FinallyCloses(ctx) == ctx # "none"

\* close() at the end of the try block only: the catch path returns with the
\* context left open.
Finally_TryOnly(k, value) ==
    /\ result' = [result EXCEPT ![k] = value]
    /\ IF FinallyCloses(context[k]) /\ value.error = Null
       THEN /\ closeCalls' = [closeCalls EXCEPT ![k] = @ + 1]
            /\ pc' = [pc EXCEPT ![k] = "closing"]
            /\ settleOrder' = settleOrder
       ELSE /\ closeCalls' = closeCalls
            /\ pc' = [pc EXCEPT ![k] = "returned"]
            /\ settleOrder' = Append(settleOrder, k)

\* The block after try or catch has built `value`: finally runs; with a
\* context the invocation suspends in close(), without one it returns.
Finally(k, value) ==
    /\ result' = [result EXCEPT ![k] = value]
    /\ IF FinallyCloses(context[k])
       THEN /\ closeCalls' = [closeCalls EXCEPT ![k] = @ + 1]
            /\ pc' = [pc EXCEPT ![k] = "closing"]
            /\ settleOrder' = settleOrder
       ELSE /\ closeCalls' = closeCalls
            /\ pc' = [pc EXCEPT ![k] = "returned"]
            /\ settleOrder' = Append(settleOrder, k)

\* catch (e): the catch block builds the result, then finally runs.
Catch(k, e) ==
    /\ caught' = [caught EXCEPT ![k] = [e |-> e, chain |-> redirectChain[k]]]
    /\ Finally(k, CatchValue(k, e))

NewContextOk(k) ==
    /\ Alive /\ pc[k] = "newContext"
    /\ context' = [context EXCEPT ![k] = "open"]
    /\ pc' = [pc EXCEPT ![k] = "newPage"]
    /\ UNCHANGED <<mainVars, page, caught, closeCalls, result, redirectChain, cb, dnsVars,
                   unhandled, site, cls, startTime, extVars>>

NewContextFails(k) ==
    /\ Alive /\ pc[k] = "newContext"
    /\ Catch(k, TargetClosed)
    /\ UNCHANGED <<urls, mainPc, i, allResults, delays, windows, browser, context, page,
                   redirectChain, cb, dnsVars, unhandled, site, cls, startTime, extVars>>

\* context.newPage() resolved; page.on("response", ...) and page.goto(...) run.
NewPageOk(k) ==
    /\ Alive /\ pc[k] = "newPage"
    /\ pc' = [pc EXCEPT ![k] = "goto"]
    /\ page' = [page EXCEPT ![k] = TRUE]
    /\ UNCHANGED <<mainVars, context, closeCalls, caught, result, redirectChain, cb,
                   dnsVars, unhandled, site, cls, startTime, extVars>>

NewPageFails(k) ==
    /\ Alive /\ pc[k] = "newPage"
    /\ Catch(k, TargetClosed)
    /\ UNCHANGED <<urls, mainPc, i, allResults, delays, windows, browser, context, page,
                   redirectChain, cb, dnsVars, unhandled, site, cls, startTime, extVars>>

\* page.goto resolved (domcontentloaded): the response that is the document
\* arrived before, after every redirect, and its "response" event has
\* started a callback.
GotoResolves(k) ==
    /\ Alive /\ pc[k] = "goto"
    /\ cb[k] # <<>> /\ NextUrl(k) = NoUrl
    /\ Finally(k, ReturnValue(k))
    /\ UNCHANGED <<urls, mainPc, i, allResults, delays, windows, browser, context, page,
                   caught, redirectChain, cb, dnsVars, unhandled, site, cls, startTime,
                   extVars>>

\* page.goto rejected: the 45 s timeout or a navigation error.
GotoRejects(k, e) ==
    /\ Alive /\ pc[k] = "goto"
    /\ Catch(k, e)
    /\ UNCHANGED <<urls, mainPc, i, allResults, delays, windows, browser, context, page,
                   redirectChain, cb, dnsVars, unhandled, site, cls, startTime, extVars>>

\* context.close() resolved: the invocation returns its result.
CloseOk(k) ==
    /\ Alive /\ pc[k] = "closing"
    /\ context' = [context EXCEPT ![k] = "closed"]
    /\ pc' = [pc EXCEPT ![k] = "returned"]
    /\ settleOrder' = Append(settleOrder, k)
    /\ UNCHANGED <<urls, mainPc, i, allResults, delays, windows, browser, page, caught,
                   closeCalls, result, redirectChain, cb, dnsVars, unhandled, site, cls,
                   startTime, extVars>>

\* context.close() rejected inside finally: the invocation's promise rejects,
\* Promise.all rejects with it, main() rejects and main().catch exits the
\* process (all in the same turn of the event loop). Whether the context was
\* released is the browser's business.
CloseThrows(k) ==
    /\ Alive /\ pc[k] = "closing"
    /\ \E c \in {"open", "closed"} : context' = [context EXCEPT ![k] = c]
    /\ pc' = [pc EXCEPT ![k] = "threw"]
    /\ mainPc' = "crashed"
    /\ UNCHANGED <<urls, i, allResults, delays, windows, browser, settleOrder, page,
                   caught, closeCalls, result, redirectChain, cb, dnsVars, unhandled, site,
                   cls, startTime, extVars>>

MainStep ==
    \/ Launch
    \/ LaunchFails
    \/ StartBatch
    \/ BatchSettled
    \/ BrowserClose
    \/ Report

\* Every exit path of one invocation.
NavStep ==
    \E k \in 1..N :
        \/ NewContextOk(k)
        \/ NewContextFails(k)
        \/ NewPageOk(k)
        \/ NewPageFails(k)
        \/ GotoResolves(k)
        \/ \E e \in GOTO_ERRORS : GotoRejects(k, e)
        \/ CloseOk(k)
        \/ CloseThrows(k)

\* The exit paths the scheduler can tell apart: a result without a context,
\* a result after the context was closed, and a rejected close. A page.goto
\* that resolves needs a response callback, which the scheduler specification
\* leaves out; its result reaches main() the way a timed-out one does.
NavRunStep ==
    \E k \in 1..N :
        \/ NewContextOk(k)
        \/ NewContextFails(k)
        \/ NewPageOk(k)
        \/ GotoRejects(k, TimeoutError)
        \/ CloseOk(k)
        \/ CloseThrows(k)

\* The URL lists of the scheduler specification: two URLs in turn, starting
\* with either.
UrlListsRun ==
    { [k \in 1..n |-> IF k % 2 = b THEN "https://www.bmw.de/" ELSE "https://cdn.example.org/"] :
        n \in 1..MaxUrls, b \in {0, 1} }

\* The scheduler: URL lists of up to MaxUrls entries. The response callbacks
\* are left out (every hop sequence stays empty): main() never reads a hop.
InitRun == cls = NoCls /\ Idle /\ \E list \in UrlListsRun : InitWith(list, SiteDns)
NextRun == MainStep \/ DelayElapsed \/ NavRunStep
SpecRun == InitRun /\ [][NextRun]_vars

\* The scheduler with its awaits settling: main()'s continuations run once
\* the promise they wait for has settled, the delay timer fires, and
\* browser.newContext, context.newPage, page.goto (at the latest at its
\* timeout) and context.close settle, each by resolving or by rejecting.
SpecRunFair ==
    SpecRun /\ WF_vars(MainStep) /\ WF_vars(DelayElapsed) /\ WF_vars(NavRunStep)

\* ------------------------------------------------- the response callback
\* resolveIp up to its await: null without a hostname, the cached address
\* when the cache has the hostname, else dns.lookup is called.
ResolveIpStart(url, cache) ==
    LET hostname == Hostname(url) IN
    IF hostname = <<>> THEN [lookup |-> FALSE, ip |-> NoIp]
    ELSE IF cache[hostname] # NoIp THEN [lookup |-> FALSE, ip |-> cache[hostname]]
    ELSE [lookup |-> TRUE, ip |-> NoIp]

\* ipCache.set(hostname, address)
CacheSet(cache, hostname, address) == [cache EXCEPT ![hostname] = address]

\* A resolveIp that stores an address for the hostname whose lookup threw.
CatchLookup_CachesFailure(cache, hostname) == CacheSet(cache, hostname, <<0, 0, 0, 0>>)

\* catch { return null; }: the cache after a dns.lookup that threw.
CatchLookup(cache, hostname) == cache

\* redirectChain.push({url, status, server, timestamp}) of callback j; resp is
\* the position of the hop's response in the arrival order (bookkeeping).
Push(chain, c, j, server, timestamp) ==
    Append(chain, [url |-> c.url, status |-> c.status, server |-> server,
                   timestamp |-> timestamp, resp |-> j])

\* The navigation of invocation k is still under way: page.goto is pending,
\* or it resolved or timed out (a timeout ends the wait, not the navigation)
\* and the context is not closed yet. A navigation error ends it.
Navigating(k) ==
    /\ page[k] /\ context[k] = "open"
    /\ \/ pc[k] = "goto"
       \/ pc[k] = "closing" /\ result[k].error \in {Null, "Timeout"}

\* A navigation response arrives and page.on("response") starts its callback,
\* which suspends in response.allHeaders(). Responses of subresources are
\* ignored by the callback and are not modelled.
Response(k) ==
    /\ Alive /\ Navigating(k)
    /\ Len(cb[k]) < MaxHops
    /\ NextUrl(k) # NoUrl
    /\ LET u == NextUrl(k) IN
        cb' = [cb EXCEPT ![k] = Append(@, [url |-> u, status |-> site[u].status,
                                            headers |-> site[u].headers, stage |-> "headers"])]
    /\ UNCHANGED <<mainVars, pc, context, page, caught, closeCalls, result, redirectChain,
                   dnsVars, unhandled, site, cls, startTime, extVars>>

\* allHeaders() resolved (the page is still there to answer): getServerName
\* runs to its verdict or to dns.lookup. With a verdict the hop is pushed in
\* the same turn.
HeadersDone(k, j) ==
    /\ Alive /\ j \in 1..Len(cb[k]) /\ cb[k][j].stage = "headers"
    /\ context[k] = "open"
    /\ LET c == cb[k][j]
           verdict == GetServerNameHeaders(c.headers, c.url, c.status)
           r == ResolveIpStart(c.url, ipCache)
       IN  IF verdict # NEEDIP
           THEN /\ redirectChain' = [redirectChain EXCEPT
                                       ![k] = Push(@, c, j, verdict, Elapsed(k))]
                /\ cb' = [cb EXCEPT ![k][j].stage = "pushed"]
                /\ lookups' = lookups
           ELSE IF ~r.lookup
           THEN /\ redirectChain' = [redirectChain EXCEPT
                                       ![k] = Push(@, c, j, GetServerNameIp(c.headers, r.ip),
                                                   Elapsed(k))]
                /\ cb' = [cb EXCEPT ![k][j].stage = "pushed"]
                /\ lookups' = lookups
           ELSE /\ redirectChain' = redirectChain
                /\ cb' = [cb EXCEPT ![k][j].stage = "dns"]
                /\ lookups' = [lookups EXCEPT ![Hostname(c.url)] = @ + 1]
    /\ UNCHANGED <<mainVars, pc, context, page, caught, closeCalls, result, ipCache,
                   unhandled, site, cls, startTime, extVars>>

\* allHeaders() rejected because the page was closed under it: the callback's
\* promise is rejected and nothing handles it.
HeadersFail(k, j) ==
    /\ Alive /\ j \in 1..Len(cb[k]) /\ cb[k][j].stage = "headers"
    /\ pc[k] \in {"closing", "returned", "threw"}
    /\ cb' = [cb EXCEPT ![k][j].stage = "failed"]
    /\ unhandled' = TRUE
    /\ UNCHANGED <<mainVars, pc, context, page, caught, closeCalls, result, redirectChain,
                   dnsVars, site, cls, startTime, extVars>>

\* dns.lookup answered: the address is cached, rule 6 decides, the hop is pushed.
DnsAnswers(k, j, address) ==
    /\ Alive /\ j \in 1..Len(cb[k]) /\ cb[k][j].stage = "dns"
    /\ LET c == cb[k][j] IN
        /\ ipCache' = CacheSet(ipCache, Hostname(c.url), address)
        /\ redirectChain' = [redirectChain EXCEPT
                               ![k] = Push(@, c, j, GetServerNameIp(c.headers, address),
                                           Elapsed(k))]
    /\ cb' = [cb EXCEPT ![k][j].stage = "pushed"]
    /\ UNCHANGED <<mainVars, pc, context, page, caught, closeCalls, result, lookups,
                   unhandled, site, cls, startTime, extVars>>

\* dns.lookup threw: resolveIp returns null, rule 6 gives Unknown.
DnsFails(k, j) ==
    /\ Alive /\ j \in 1..Len(cb[k]) /\ cb[k][j].stage = "dns"
    /\ LET c == cb[k][j] IN
        redirectChain' = [redirectChain EXCEPT
                            ![k] = Push(@, c, j, GetServerNameIp(c.headers, NoIp),
                                        Elapsed(k))]
    /\ cb' = [cb EXCEPT ![k][j].stage = "pushed"]
    /\ ipCache' = CatchLookup(ipCache, Hostname(cb[k][j].url))
    /\ UNCHANGED <<mainVars, pc, context, page, caught, closeCalls, result, lookups,
                   unhandled, site, cls, startTime, extVars>>

\* Node ends the process on an unhandled rejection (its default since v15;
\* older versions only warn, which is this action not being taken).
UnhandledRejection ==
    /\ unhandled /\ Alive /\ mainPc # "done"
    /\ mainPc' = "crashed"
    /\ UNCHANGED <<urls, i, allResults, delays, windows, browser, settleOrder, navVars,
                   dnsVars, unhandled, site, cls, extVars>>

CallbackStep ==
    \E k \in 1..N :
        \/ Response(k)
        \/ \E j \in 1..MaxHops :
              \/ HeadersDone(k, j)
              \/ HeadersFail(k, j)
              \/ \E a \in ADDRESSES : DnsAnswers(k, j, a)
              \/ DnsFails(k, j)

\* One navigation in detail: a single URL, every exit path, the callbacks.
Init == cls = NoCls /\ Idle /\ \E u \in URLS, web \in SITES : InitWith(<<u>>, web)
Next == MainStep \/ NavStep \/ CallbackStep \/ UnhandledRejection
Spec == Init /\ [][Next]_vars

\* ---------------------------------------------------------------- the clock
\* Time passes: the next Date.now() reads a later value.
Tick ==
    /\ now < MaxTime
    /\ now' = now + 1
    /\ UNCHANGED <<mainVars, navVars, dnsVars, unhandled, site, cls, hist, api, fe>>

\* One navigation with the clock running: a URL that redirects once, so its
\* two hops and the return statement can read different times.
InitTime == cls = NoCls /\ Idle /\ InitWith(<<"https://www.bmw.de/x5">>, SiteDns)
NextTime == Next \/ Tick
SpecTime == InitTime /\ [][NextTime]_vars

\* ------------------------------------------------------ main(): history.json
\* history.json is missing, holds text JSON.parse rejects, or holds a list of
\* entries. An entry is the number of the run that wrote it; the entries of
\* the runs before the first modelled one are 0, -1, -2, ...
NoFile == [kind |-> "missing", entries |-> <<>>]
CorruptFile == [kind |-> "corrupt", entries |-> <<>>]
ListFile(entries) == [kind |-> "list", entries |-> entries]
EarlierRuns(n) == [p \in 1..n |-> 1 - p]

\* let history = []; try { history = JSON.parse(await readFile(...)) } catch {}
ReadHistory(file) == IF file.kind = "list" THEN file.entries ELSE <<>>

\* history.unshift(historyEntry)
Unshift(history, historyEntry) == <<historyEntry>> \o history

\* A truncation that keeps the last 50 entries (slice(-50)).
Truncate_KeepsLast(history) ==
    IF Len(history) > HISTORY_LIMIT
    THEN SubSeq(history, Len(history) - HISTORY_LIMIT + 1, Len(history))
    ELSE history

\* if (history.length > 50) history = history.slice(0, 50)
Truncate(history) ==
    IF Len(history) > HISTORY_LIMIT THEN SubSeq(history, 1, HISTORY_LIMIT) ELSE history

\* One run of main() reaches "4. Update History" and writeFile succeeds.
UpdateHistory ==
    /\ hist.stage = "runs" /\ hist.runs < MaxRuns
    /\ LET historyEntry == hist.runs + 1
           history == Truncate(Unshift(ReadHistory(hist.file), historyEntry))
       IN  hist' = [stage |-> "runs", file |-> ListFile(history), runs |-> historyEntry,
                    wrote |-> TRUE]
    /\ UNCHANGED <<mainVars, navVars, dnsVars, unhandled, site, cls, now, api, fe>>

\* writeFile rejects: main() rejects and the process exits; the file is as it
\* was or holds a part of the new text.
UpdateHistoryFails ==
    /\ hist.stage = "runs" /\ hist.runs < MaxRuns
    /\ \E file \in {hist.file, CorruptFile} :
          hist' = [stage |-> "runs", file |-> file, runs |-> hist.runs + 1, wrote |-> FALSE]
    /\ UNCHANGED <<mainVars, navVars, dnsVars, unhandled, site, cls, now, api, fe>>

\* Runs of main() one after the other on a history.json that earlier runs
\* left behind, or on none.
InitHistory ==
    /\ InitWith(<<"https://www.bmw.de/">>, SiteDns)
    /\ cls = NoCls /\ api = NoApi /\ fe = NoFe
    /\ \E file \in {NoFile} \cup {ListFile(EarlierRuns(n)) : n \in 1..HISTORY_LIMIT} :
          hist = [stage |-> "runs", file |-> file, runs |-> 0, wrote |-> FALSE]
NextHistory == UpdateHistory \/ UpdateHistoryFails
SpecHistory == InitHistory /\ [][NextHistory]_vars

\* ------------------------------------------------ the API handler (api.js)
\* undefined: a field the request body or an object does not have.
Undefined == "undefined"

\* APP_USERS as configured: every user has a password and a limit.
USERS ==
    [alice |-> [pass |-> "pw-alice", limit |-> 2],
     bob |-> [pass |-> "pw-bob", limit |-> 1]]

\* Names every object inherits from Object.prototype.
PROTO_KEYS == {"constructor", "toString"}

\* USERS[username]: the configured user, else what the prototype chain has
\* under that name (a function, with neither pass nor limit), else undefined.
Lookup(username) ==
    IF username \in DOMAIN USERS
    THEN [truthy |-> TRUE, pass |-> USERS[username].pass,
          hasLimit |-> TRUE, limit |-> USERS[username].limit]
    ELSE IF username \in PROTO_KEYS
    THEN [truthy |-> TRUE, pass |-> Undefined, hasLimit |-> FALSE, limit |-> 0]
    ELSE [truthy |-> FALSE, pass |-> Undefined, hasLimit |-> FALSE, limit |-> 0]

\* if (!user || user.pass !== password) return 401
Rejected(user, password) == ~user.truthy \/ user.pass # password

\* payload.split('\n').filter(u => u.trim()).length: a payload is a sequence
\* of lines, each a URL or blank.
RECURSIVE NonBlank(_)
NonBlank(payload) ==
    IF payload = <<>> THEN 0
    ELSE (IF payload[1] = "url" THEN 1 ELSE 0) + NonBlank(Tail(payload))

\* urls.length > user.limit (false when the limit is undefined)
LimitExceeded(n, user) == user.hasLimit /\ n > user.limit

\* A freshness test that takes any run for a new one.
IsNewRun_AnyRun(age) == TRUE

\* (now - runTime) < 60000
IsNewRun(age) == age < FRESH_RUN_MS

\* The requests: what event.body parses to.
API_ACTIONS == {"upload", "check_run", "get_history", "get_report", "get_latest_run", "bogus"}
USERNAMES == {"alice", "bob", "mallory", "constructor"}
PASSWORDS == {"pw-alice", "pw-bob", Undefined}
RECURSIVE Payloads(_)
Payloads(n) ==
    IF n = 0 THEN {<<>>}
    ELSE Payloads(n - 1) \cup
         {Append(p, l) : p \in {q \in Payloads(n - 1) : Len(q) = n - 1}, l \in {"url", "blank"}}
NoPayload == <<"none">>           \* the body has no payload a handler can use
PAYLOADS == Payloads(MaxLines) \cup {NoPayload}
VERSIONS == {"api.js", "part_001"}

\* What the runs query answers: the age in ms of the newest push run, and
\* the id of that run.
RUN_AGES == {0, FRESH_RUN_MS - 1, FRESH_RUN_MS}
RunId(age) == 100 + age
POLL_OUTCOMES ==
    {[kind |-> k, age |-> 0] : k \in {"notOk", "noRuns", "throws"}} \cup
    {[kind |-> "run", age |-> a] : a \in RUN_AGES}

NoResponse == [statusCode |-> 0, runId |-> 0]
Status(code) == [statusCode |-> code, runId |-> 0]

\* The handler returns.
Return(response) == [api EXCEPT !.pc = "done", !.response = response]

\* The handler calls fetch on the GitHub API and is suspended in it.
Fetch(request, at) == [api EXCEPT !.pc = at, !.requests = Append(@, request)]

apiRest == <<mainVars, navVars, dnsVars, unhandled, site, cls, now, hist, fe>>

\* exports.handler up to its first await or its return: authentication,
\* routing, the limit test. A payload the action cannot use throws a
\* TypeError, which the catch block turns into 500.
Handler ==
    /\ api.stage = "handler" /\ api.pc = "start"
    /\ LET user == Lookup(api.username)
           payload == api.payload
       IN  api' =
             IF Rejected(user, api.password) THEN Return(Status(401))
             ELSE IF api.action = "upload"
             THEN IF payload = NoPayload THEN Return(Status(500))
                  ELSE IF LimitExceeded(NonBlank(payload), user) THEN Return(Status(403))
                  ELSE Fetch("GET urls.txt", "getSha")
             ELSE IF api.action = "get_latest_run" /\ api.version = "part_001"
             THEN Fetch("GET runs", "fetch")
             ELSE IF api.action = "check_run"
             THEN IF payload = NoPayload THEN Return(Status(500))
                  ELSE Fetch("GET run", "fetch")
             ELSE IF api.action = "get_history" THEN Fetch("GET history.json", "fetch")
             ELSE IF api.action = "get_report"
             THEN IF payload = NoPayload THEN Return(Status(500))
                  ELSE Fetch("GET report", "fetch")
             ELSE Return(Status(400))
    /\ UNCHANGED apiRest

\* uploadToGitHub, step 1: the sha request settles (ok, not ok, or thrown and
\* swallowed) and the PUT is sent.
ShaSettles ==
    /\ api.stage = "handler" /\ api.pc = "getSha"
    /\ api' = Fetch("PUT urls.txt", "put")
    /\ UNCHANGED apiRest

\* uploadToGitHub, step 2: the PUT settles. Not ok or thrown: 500. Ok: the
\* file is uploaded; api.js goes on to look for the run, part_001 returns.
PutSettles(ok) ==
    /\ api.stage = "handler" /\ api.pc = "put"
    /\ api' =
         IF ~ok THEN Return(Status(500))
         ELSE IF api.version = "part_001" THEN [Return(Status(200)) EXCEPT !.uploaded = TRUE]
         ELSE [api EXCEPT !.pc = "wait", !.uploaded = TRUE, !.i = 0]
    /\ UNCHANGED apiRest

\* await new Promise(r => setTimeout(r, 3000)) ends and the runs query is sent.
WaitElapsed ==
    /\ api.stage = "handler" /\ api.pc = "wait"
    /\ api' = [Fetch("GET runs", "poll") EXCEPT !.waited = @ + POLL_WAIT_MS]
    /\ UNCHANGED apiRest

\* The runs query of pass i settles: a new run ends the loop with 200 and the
\* run's id; a thrown fetch ends the handler with 500; anything else goes to
\* the next pass, and after the last pass to the throw that becomes 500.
PollSettles(outcome) ==
    /\ api.stage = "handler" /\ api.pc = "poll"
    /\ LET seen == [api EXCEPT !.polls = Append(@, outcome)] IN
       api' =
         IF outcome.kind = "throws"
         THEN [seen EXCEPT !.pc = "done", !.response = Status(500)]
         ELSE IF outcome.kind = "run" /\ IsNewRun(outcome.age)
         THEN [seen EXCEPT !.pc = "done",
                           !.response = [statusCode |-> 200, runId |-> RunId(outcome.age)]]
         ELSE IF api.i + 1 < MAX_POLLS
         THEN [seen EXCEPT !.pc = "wait", !.i = @ + 1]
         ELSE [seen EXCEPT !.pc = "done", !.i = @ + 1, !.response = Status(500)]
    /\ UNCHANGED apiRest

\* checkRunStatus, getFileContent, getLatestRun: their one request settles.
FetchSettles(kind) ==
    /\ api.stage = "handler" /\ api.pc = "fetch"
    /\ api' =
         IF kind = "throws" THEN Return(Status(500))
         ELSE IF kind = "ok" THEN Return(Status(200))
         ELSE IF api.action = "get_latest_run" THEN Return(Status(200))
         ELSE IF api.action = "check_run" /\ api.version = "part_001" THEN Return(Status(200))
         ELSE Return(Status(404))
    /\ UNCHANGED apiRest

\* One invocation of the handler on one request.
InitApi ==
    /\ InitWith(<<"https://www.bmw.de/">>, SiteDns)
    /\ cls = NoCls /\ hist = NoHist /\ fe = NoFe
    /\ \E v \in VERSIONS, a \in API_ACTIONS, u \in USERNAMES, pw \in PASSWORDS, p \in PAYLOADS :
          api = [stage |-> "handler", version |-> v, action |-> a, username |-> u,
                 password |-> pw, payload |-> p, pc |-> "start", requests |-> <<>>,
                 uploaded |-> FALSE, i |-> 0, waited |-> 0, polls |-> <<>>,
                 response |-> NoResponse]
NextApi ==
    \/ Handler
    \/ ShaSettles
    \/ \E ok \in BOOLEAN : PutSettles(ok)
    \/ WaitElapsed
    \/ \E outcome \in POLL_OUTCOMES : PollSettles(outcome)
    \/ \E kind \in {"ok", "notOk", "throws"} : FetchSettles(kind)
SpecApi == InitApi /\ [][NextApi]_vars

\* ------------------------------------------- the frontend: waitForRunId
feRest == <<mainVars, navVars, dnsVars, unhandled, site, cls, now, hist, api>>

\* The interval fires: the callback runs attempts++ and calls callApi, in
\* which it is suspended. The timer does not wait for earlier callbacks.
IntervalFires ==
    /\ fe.stage = "waitForRunId" /\ fe.interval = "set"
    /\ fe.attempts < MaxTicks /\ fe.inFlight < MaxInFlight
    /\ fe' = [fe EXCEPT !.attempts = @ + 1, !.inFlight = @ + 1]
    /\ UNCHANGED feRest

\* A poll is answered and its callback resumes: with a run id it clears the
\* interval and calls trackProgress; without one it clears the interval when
\* attempts, as it is now, has reached maxAttempts.
PollAnswers(runId) ==
    /\ fe.stage = "waitForRunId" /\ fe.inFlight > 0
    /\ fe' = IF runId
             THEN [fe EXCEPT !.inFlight = @ - 1, !.interval = "cleared",
                             !.trackProgress = @ + 1]
             ELSE IF fe.attempts >= maxAttempts
             THEN [fe EXCEPT !.inFlight = @ - 1, !.interval = "cleared"]
             ELSE [fe EXCEPT !.inFlight = @ - 1]
    /\ UNCHANGED feRest

\* callApi rejects (fetch failed, or the answer is not JSON): the callback's
\* promise rejects and nothing else happens.
PollRejects ==
    /\ fe.stage = "waitForRunId" /\ fe.inFlight > 0
    /\ fe' = [fe EXCEPT !.inFlight = @ - 1]
    /\ UNCHANGED feRest

\* One call of waitForRunId after one upload.
InitFrontend ==
    /\ InitWith(<<"https://www.bmw.de/">>, SiteDns)
    /\ cls = NoCls /\ hist = NoHist /\ api = NoApi
    /\ fe = [stage |-> "waitForRunId", interval |-> "set", attempts |-> 0, inFlight |-> 0,
             trackProgress |-> 0]
NextFrontend ==
    \/ IntervalFires
    \/ \E runId \in BOOLEAN : PollAnswers(runId)
    \/ PollRejects
SpecFrontend == InitFrontend /\ [][NextFrontend]_vars

\* ------------------------------------------- getServerName called directly
\* The header entries a classified response is made of. A header set is a
\* selection of them in this order with pairwise different names, so a
\* later entry wins over an earlier one whose name differs only in case.
HEADER_ENTRIES ==
    << [k |-> "x-cache", v |-> <<"TCP_HIT", " from a23-1">>],
       [k |-> "X-Cache", v |-> <<"TCP_MISS", " from a23-1">>],
       [k |-> "x-cache", v |-> <<"TCP_REFRESH_HIT">>],
       [k |-> "X-Cache", v |-> <<"TCP_MEM_HIT">>],
       [k |-> "x-cache", v |-> <<"TCP_MISS", ", ", "TCP_HIT">>],
       [k |-> "x-cache", v |-> << >>],
       [k |-> "x-akamai-request-id", v |-> <<"abc">>],
       [k |-> "X-Akamai-Request-Id", v |-> << >>],
       [k |-> "x-akamai-staging", v |-> <<"ESSL">>],
       [k |-> "akamai-mon-ibit", v |-> <<"1">>],
       [k |-> "Server", v |-> <<"Apache">>],
       [k |-> "server", v |-> <<"Akamai", "GHost">>],
       [k |-> "x-dispatcher", v |-> <<"dispatcher1">>],
       [k |-> "x-aem-instance", v |-> << >>],
       [k |-> "cache-control", v |-> <<"max-age=0">>],
       [k |-> "server-timing", v |-> <<"cdn-cache; desc=HIT">>],
       [k |-> "server-timing", v |-> <<"cdn-cache; desc=MISS">>] >>

\* The selections of up to MaxHeaders entries, as increasing index sequences.
RECURSIVE Selections(_, _)
Selections(from, n) ==
    IF n = 0 THEN {<< >>}
    ELSE {<< >>} \cup
         UNION { { <<e>> \o rest : rest \in Selections(e + 1, n - 1) } :
                 e \in from..Len(HEADER_ENTRIES) }

HEADER_SETS ==
    { [j \in 1..Len(sel) |-> HEADER_ENTRIES[sel[j]]] :
        sel \in { t \in Selections(1, MaxHeaders) :
                    \A a, b \in 1..Len(t) :
                        a # b => HEADER_ENTRIES[t[a]].k # HEADER_ENTRIES[t[b]].k } }

STATUS_CODES == {200, 301, 302}

\* A header name in its other letter case.
OtherCase(a) ==
    IF LowerAtom(a) # a THEN LowerAtom(a)
    ELSE CASE a = "x-cache" -> "X-Cache"
           [] a = "server" -> "Server"
           [] a = "x-akamai-request-id" -> "X-Akamai-Request-Id"
           [] a = "x-akamai-staging" -> "X-Akamai-Staging"
           [] a = "akamai-mon-ibit" -> "Akamai-Mon-Ibit"
           [] a = "x-dispatcher" -> "X-Dispatcher"
           [] a = "x-aem-instance" -> "X-Aem-Instance"
           [] a = "cache-control" -> "Cache-Control"
           [] a = "server-timing" -> "Server-Timing"
           [] OTHER -> a

SwapNames(headers) ==
    [j \in 1..Len(headers) |-> [k |-> OtherCase(headers[j].k), v |-> headers[j].v]]

\* The headers the c-th call receives: those of the input; with cls.swap
\* every call after the first receives the names in their other letter case.
HeadersOfCall(c) == IF cls.swap /\ c > 1 THEN SwapNames(cls.headers) ELSE cls.headers

\* A call record: where the call is, its verdict, whether it received the
\* swapped names, whether it reached `await resolveIp` and what that returned.
CallDone(c, server, rule6, ip) ==
    [stage |-> "done", server |-> server, swapped |-> cls.swap /\ c > 1, rule6 |-> rule6, ip |-> ip]
CallInDns(c) ==
    [stage |-> "dns", server |-> Null, swapped |-> cls.swap /\ c > 1, rule6 |-> TRUE, ip |-> NoIp]

\* A call of getServerName with the input of cls runs until it returns or
\* is suspended in dns.lookup.
ClsCall ==
    /\ cls.stage = "input" /\ Len(cls.calls) < MaxCalls
    /\ LET c == Len(cls.calls) + 1
           verdict == GetServerNameHeaders(HeadersOfCall(c), cls.url, cls.status)
           r == ResolveIpStart(cls.url, ipCache)
       IN  IF verdict # NEEDIP
           THEN /\ cls' = [cls EXCEPT !.calls = Append(@, CallDone(c, verdict, FALSE, NoIp))]
                /\ lookups' = lookups
           ELSE IF ~r.lookup
           THEN /\ cls' = [cls EXCEPT !.calls = Append(@,
                              CallDone(c, GetServerNameIp(HeadersOfCall(c), r.ip), TRUE, r.ip))]
                /\ lookups' = lookups
           ELSE /\ cls' = [cls EXCEPT !.calls = Append(@, CallInDns(c))]
                /\ lookups' = [lookups EXCEPT ![Hostname(cls.url)] = @ + 1]
    /\ UNCHANGED <<mainVars, navVars, ipCache, unhandled, site, extVars>>

ClsDnsAnswers(c, address) ==
    /\ cls.stage = "input" /\ c \in 1..Len(cls.calls) /\ cls.calls[c].stage = "dns"
    /\ ipCache' = CacheSet(ipCache, Hostname(cls.url), address)
    /\ cls' = [cls EXCEPT !.calls[c] =
                  CallDone(c, GetServerNameIp(HeadersOfCall(c), address), TRUE, address)]
    /\ UNCHANGED <<mainVars, navVars, lookups, unhandled, site, extVars>>

ClsDnsFails(c) ==
    /\ cls.stage = "input" /\ c \in 1..Len(cls.calls) /\ cls.calls[c].stage = "dns"
    /\ cls' = [cls EXCEPT !.calls[c] =
                  CallDone(c, GetServerNameIp(HeadersOfCall(c), NoIp), TRUE, NoIp)]
    /\ ipCache' = CatchLookup(ipCache, Hostname(cls.url))
    /\ UNCHANGED <<mainVars, navVars, lookups, unhandled, site, extVars>>

\* getServerName on its own: up to MaxCalls calls, which may overlap, on one
\* input drawn from the header sets, the URLs and the status codes; the
\* later calls receive the same header names or their other letter case.
InitClassify ==
    /\ InitWith(<<"https://www.bmw.de/">>, SiteDns)
    /\ Idle
    /\ \E h \in HEADER_SETS, u \in CLS_URLS, st \in STATUS_CODES, sw \in BOOLEAN :
          cls = [stage |-> "input", headers |-> h, url |-> u, status |-> st, swap |-> sw,
                 calls |-> << >>]
NextClassify ==
    \/ ClsCall
    \/ \E c \in 1..MaxCalls :
          \/ \E a \in ADDRESSES : ClsDnsAnswers(c, a)
          \/ ClsDnsFails(c)
SpecClassify == InitClassify /\ [][NextClassify]_vars

\* =================================================================== claims
\* A catch block that returns a result without the hops (redirectChain: []).
ResultView_CatchDropsHops(k) ==
    [fields |-> result[k],
     redirectChain |-> IF caught[k].e # NoError THEN <<>> ELSE redirectChain[k]]

\* The result object of invocation k as its holders see it: the fields the
\* return statement set and the redirectChain array it refers to.
ResultView(k) == [fields |-> result[k], redirectChain |-> redirectChain[k]]

LoopEnded == mainPc \in {"browserClose", "report", "done"}

\* C1 (SpecRun): when the window loop has ended, allResults has one entry per
\* input URL and entry j carries originalURL = urls[j], whatever the order in
\* which the invocations of each window settled.
C1_ResultOrderIsInputOrder ==
    LoopEnded =>
        /\ Len(allResults) = N
        /\ \A j \in 1..N : result[allResults[j]].originalURL = urls[j]

\* C1 witness: a finished run of two windows whose last window settled in
\* the reverse of its input order.
C1_Witness ==
    /\ mainPc = "done" /\ N > BATCH_SIZE + 1
    /\ Len(allResults) = N
    /\ Len(settleOrder) > 1 /\ settleOrder[1] > settleOrder[2]

\* C2 (Spec): in every returned result with a non-empty hop sequence,
\* sourceServer is the server of the first hop and targetServer the server
\* of the last hop.
C2_ServersMatchHops ==
    \A k \in 1..N :
        (pc[k] = "returned" /\ redirectChain[k] # <<>>) =>
            /\ result[k].sourceServer = redirectChain[k][1].server
            /\ result[k].targetServer = Last(redirectChain[k]).server

\* C3 (Spec): a returned result is never changed by a later step; no
\* callback appends a hop to the hop sequence of a returned result.
C3_ReturnedResultFrozen ==
    [][\A k \in 1..N : pc[k] = "returned" => ResultView(k)' = ResultView(k)]_vars

\* C4 (Spec): the hops of a result are in the arrival order of their
\* navigation responses.
C4_HopsInArrivalOrder ==
    \A k \in 1..N : \A a, b \in 1..Len(redirectChain[k]) :
        a < b => redirectChain[k][a].resp < redirectChain[k][b].resp

\* C5 (Spec): close() is called at most once per context, and an invocation
\* that has returned has either created no context or closed its context
\* with exactly one call.
C5_ContextClosedOnce ==
    \A k \in 1..N :
        /\ closeCalls[k] <= 1
        /\ context[k] = "none" => closeCalls[k] = 0
        /\ pc[k] = "returned" =>
              /\ context[k] \in {"none", "closed"}
              /\ context[k] = "closed" => closeCalls[k] = 1

\* C5 witness: a navigation that timed out after a hop was captured has
\* returned with its context closed by one call.
C5_Witness ==
    \E k \in 1..N :
        /\ pc[k] = "returned" /\ result[k].error = "Timeout"
        /\ redirectChain[k] # <<>>
        /\ context[k] = "closed" /\ closeCalls[k] = 1

\* C6 (Spec): no invocation throws past its boundary and nothing that
\* happens to one URL ends the run; only a failed launch does.
C6_NoUrlFailureAbortsRun ==
    /\ \A k \in 1..N : pc[k] # "threw"
    /\ mainPc # "crashed"

\* C7 (Spec): at most one dns.lookup is issued per hostname.
C7_OneLookupPerHostname == \A h \in HOSTS : lookups[h] <= 1

\* C8 (Spec): no cache entry is removed and a cached address never changes.
C8_CacheStable ==
    [][\A h \in HOSTS : ipCache[h] # NoIp => ipCache'[h] = ipCache[h]]_vars

\* C9 (SpecClassify): any two finished calls of getServerName on the same
\* headers, URL and status code returned the same verdict.
C9_SameInputSameVerdict ==
    cls.stage = "input" =>
        \A a, b \in 1..Len(cls.calls) :
            ( /\ cls.calls[a].stage = "done" /\ cls.calls[b].stage = "done"
              /\ cls.calls[a].swapped = cls.calls[b].swapped ) =>
                cls.calls[a].server = cls.calls[b].server

\* The entries of a header set whose name is `name` up to letter case.
Named(headers, name) == {j \in 1..Len(headers) : LowerAtom(headers[j].k) = name}

HitMarkers == {"TCP_HIT", "TCP_MEM_HIT", "TCP_REFRESH_HIT"}
HasHitMarker(value) == \E p \in 1..Len(value) : value[p] \in HitMarkers

\* C10 (SpecClassify): when the x-cache header carries a cache-hit marker
\* and the status code is not a redirect, every finished call returned
\* Akamai, whatever the other headers, the hostname and the DNS answer.
C10_CacheHitIsAkamai ==
    ( /\ cls.stage = "input"
      /\ Named(cls.headers, "x-cache") # {}
      /\ \A j \in Named(cls.headers, "x-cache") : HasHitMarker(cls.headers[j].v)
      /\ cls.status \notin 300..399 ) =>
        \A c \in 1..Len(cls.calls) :
            cls.calls[c].stage = "done" /\ cls.calls[c].server = ServerType.AKAMAI

\* C10 witness: TCP_REFRESH_HIT beside a dispatcher header on a recognized
\* hostname, status 200, classified Akamai.
C10_Witness ==
    /\ cls.stage = "input" /\ cls.status = 200 /\ cls.url = "https://www.bmw.de/"
    /\ \E j \in Named(cls.headers, "x-cache") : cls.headers[j].v = <<"TCP_REFRESH_HIT">>
    /\ Named(cls.headers, "x-dispatcher") # {}
    /\ Len(cls.calls) > 0 /\ cls.calls[1].server = ServerType.AKAMAI

\* The conditions the C11..C13 claims put on the input of getServerName.
\* Every x-cache entry says TCP_MISS / names no cache hit / names one.
XCacheSaysMiss(headers) ==
    /\ Named(headers, "x-cache") # {}
    /\ \A j \in Named(headers, "x-cache") : Includes(headers[j].v, <<"TCP_MISS">>)
XCacheNoHit(headers) == \A j \in Named(headers, "x-cache") : ~HasHitMarker(headers[j].v)
XCacheNoMiss(headers) ==
    \A j \in Named(headers, "x-cache") : ~Includes(headers[j].v, <<"TCP_MISS">>)
XCacheAllHit(headers) ==
    /\ Named(headers, "x-cache") # {}
    /\ \A j \in Named(headers, "x-cache") : HasHitMarker(headers[j].v)

\* One of the three vendor debug headers is in the header set.
HasDebugHeader(headers) ==
    \E n \in {"x-akamai-request-id", "x-akamai-staging", "akamai-mon-ibit"} :
        Named(headers, n) # {}

\* No signal of a rule after rule B: no Server header, no server-timing
\* header, none of the origin headers.
NoLaterSignal(headers) ==
    \A n \in {"server", "server-timing", "x-dispatcher", "x-aem-instance", "cache-control"} :
        Named(headers, n) = {}

IsRedirect(status) == status \in 300..399

\* C11 (SpecClassify): when x-cache says TCP_MISS and names no cache hit, a
\* vendor debug header is present and no later rule has a signal, no call
\* returns Akamai, whatever the status code, the hostname and the DNS answer.
C11_MissBlocksDebugHeaders ==
    ( /\ cls.stage = "input"
      /\ XCacheSaysMiss(cls.headers) /\ XCacheNoHit(cls.headers)
      /\ HasDebugHeader(cls.headers)
      /\ NoLaterSignal(cls.headers) ) =>
        \A c \in 1..Len(cls.calls) : cls.calls[c].server # ServerType.AKAMAI

\* C11 witness: scenario B (x-cache TCP_MISS, x-akamai-request-id abc,
\* status 302) with the hostname resolved to an address inside an Akamai
\* range, classified Unknown.
C11_Witness ==
    /\ cls.stage = "input" /\ cls.status = 302
    /\ XCacheSaysMiss(cls.headers) /\ XCacheNoHit(cls.headers)
    /\ \E j \in Named(cls.headers, "x-akamai-request-id") : cls.headers[j].v = <<"abc">>
    /\ NoLaterSignal(cls.headers)
    /\ isAkamaiIp(ipCache[Hostname(cls.url)])
    /\ Len(cls.calls) > 0
    /\ cls.calls[1].stage = "done" /\ cls.calls[1].server = ServerType.UNKNOWN

\* C12 (SpecClassify): when the status code is a redirect and x-cache names
\* a cache hit and also says TCP_MISS, rule 1 does not decide: with no other
\* signal in the headers no call returns Akamai.
C12_RedirectMissSkipsRuleOne ==
    ( /\ cls.stage = "input"
      /\ IsRedirect(cls.status)
      /\ XCacheAllHit(cls.headers) /\ XCacheSaysMiss(cls.headers)
      /\ ~HasDebugHeader(cls.headers)
      /\ NoLaterSignal(cls.headers) ) =>
        \A c \in 1..Len(cls.calls) : cls.calls[c].server # ServerType.AKAMAI

\* C13 (SpecClassify): when the status code is a redirect and x-cache names
\* a cache hit and does not say TCP_MISS, every call has returned Akamai.
C13_RedirectHitIsAkamai ==
    ( /\ cls.stage = "input"
      /\ IsRedirect(cls.status)
      /\ XCacheAllHit(cls.headers) /\ XCacheNoMiss(cls.headers) ) =>
        \A c \in 1..Len(cls.calls) :
            cls.calls[c].stage = "done" /\ cls.calls[c].server = ServerType.AKAMAI

\* C13 witness: a 301 whose x-cache says TCP_MEM_HIT beside an Apache
\* Server header, on a hostname no origin rule knows, classified Akamai.
C13_Witness ==
    /\ cls.stage = "input" /\ cls.status = 301 /\ cls.url = "https://cdn.example.org/"
    /\ Named(cls.headers, "x-cache") # {}
    /\ \A j \in Named(cls.headers, "x-cache") : cls.headers[j].v = <<"TCP_MEM_HIT">>
    /\ Named(cls.headers, "server") # {}
    /\ Len(cls.calls) > 0 /\ cls.calls[1].server = ServerType.AKAMAI

\* ------------------------------------------------------------ the scheduler
\* ceil(N / BATCH_SIZE)
WindowCount == (N + BATCH_SIZE - 1) \div BATCH_SIZE

Min(a, b) == IF a < b THEN a ELSE b

\* The w-th consecutive run of BATCH_SIZE indices of 1..N, the last one
\* holding the remainder.
Window(w) ==
    [j \in 1..(Min(w * BATCH_SIZE, N) - (w - 1) * BATCH_SIZE) |-> (w - 1) * BATCH_SIZE + j]

\* The URLs of the w-th window the loop has started.
InWindow(w) == {windows[w][j] : j \in 1..Len(windows[w])}

Started(k) == pc[k] # "idle"
Settled(k) == pc[k] = "returned"

\* C14 (SpecRun): the windows the loop has started are the first of the
\* ceil(N / BATCH_SIZE) consecutive windows of exactly BATCH_SIZE URLs, the
\* last holding the remainder, and a loop that has ended has started them all.
C14_WindowsPartitionUrls ==
    /\ Len(windows) <= WindowCount
    /\ \A w \in 1..Len(windows) : windows[w] = Window(w)
    /\ \A w \in 1..Len(windows) :
          Len(windows[w]) = IF w < WindowCount THEN BATCH_SIZE
                            ELSE N - (WindowCount - 1) * BATCH_SIZE
    /\ LoopEnded => Len(windows) = WindowCount

\* C14 witness: scenario D, 7 URLs run to the end in two windows of 5 and 2.
C14_Witness ==
    /\ mainPc = "done" /\ N = 7
    /\ windows = << <<1, 2, 3, 4, 5>>, <<6, 7>> >>

\* C15 (SpecRun): the delay runs once between consecutive windows and never
\* after the last: a delay is under way only when another window follows
\* and every invocation started so far has settled, window w + 1 starts
\* after exactly w delays, and a loop that ran W windows ends after W - 1.
C15_DelayBetweenWindowsOnly ==
    /\ mainPc = "delay" =>
          /\ Len(windows) < WindowCount
          /\ delays = Len(windows) - 1
          /\ \A k \in 1..N : Started(k) => Settled(k)
    /\ mainPc = "loop" => delays = Len(windows)
    /\ mainPc = "batchWait" => delays = Len(windows) - 1
    /\ LoopEnded => delays = WindowCount - 1

\* C15 witness: a finished run of two windows with one delay.
C15_Witness ==
    /\ mainPc = "done" /\ N > BATCH_SIZE
    /\ Len(windows) = 2 /\ delays = 1

\* C16 (SpecRun): an invocation of a later window has started only if every
\* invocation of every earlier window has returned its result.
C16_WindowsDoNotOverlap ==
    \A v, w \in 1..Len(windows) :
        v < w => \A a \in InWindow(v), b \in InWindow(w) : Started(b) => Settled(a)

\* C16 witness: the second window is in flight, one of its invocations not
\* yet returned, after the first window settled.
C16_Witness ==
    /\ Len(windows) = 2 /\ mainPc = "batchWait"
    /\ \A j \in 1..Len(windows[1]) : Settled(windows[1][j])
    /\ \E j \in 1..Len(windows[2]) :
          Started(windows[2][j]) /\ pc[windows[2][j]] = "goto"

OpenContexts == {k \in 1..N : context[k] = "open"}

\* C17 (SpecRun): at most BATCH_SIZE browser contexts are open at a time.
C17_OpenContextsBounded == Cardinality(OpenContexts) <= BATCH_SIZE

\* C17 witness: in a run of more than BATCH_SIZE URLs, BATCH_SIZE contexts
\* are open at once.
C17_Witness ==
    /\ N > BATCH_SIZE
    /\ Cardinality(OpenContexts) = BATCH_SIZE

\* ------------------------------------------------------------ failed results
IsPrefix(s, t) == Len(s) <= Len(t) /\ \A j \in 1..Len(s) : s[j] = t[j]

\* The catch block of invocation k has built a result.
Failed(k) == caught[k].e # NoError

\* C18 (Spec): a failed result carries a failure descriptor, "Timeout" when
\* the navigation timed out, and its hop sequence begins with every hop that
\* had been pushed when the failure was caught, in every later state too.
C18_FailedResultKeepsHops ==
    \A k \in 1..N :
        Failed(k) =>
            /\ ResultView(k).fields.error # Null
            /\ caught[k].e = TimeoutError => ResultView(k).fields.error = "Timeout"
            /\ IsPrefix(caught[k].chain, ResultView(k).redirectChain)

\* C18 witness: a navigation timed out after two hops were pushed and has
\* returned a Timeout result that has them.
C18_Witness ==
    \E k \in 1..N :
        /\ pc[k] = "returned" /\ caught[k].e = TimeoutError
        /\ Len(caught[k].chain) = 2
        /\ ResultView(k).fields.error = "Timeout"
        /\ Len(ResultView(k).redirectChain) >= 2

\* C19 (Spec): the result an invocation returned after page.goto resolved
\* has at least one hop.
C19_CompletedHasHop ==
    \A k \in 1..N :
        (pc[k] = "returned" /\ ~Failed(k)) => Len(ResultView(k).redirectChain) >= 1

\* C20 (Spec): the result of a navigation that failed before any hop was
\* captured has no hops, a failure descriptor, no finalURL and no source
\* and target server.
C20_FailureWithoutHops ==
    \A k \in 1..N :
        (pc[k] = "returned" /\ Failed(k) /\ caught[k].chain = <<>>) =>
            /\ ResultView(k).redirectChain = <<>>
            /\ ResultView(k).fields.error # Null
            /\ ResultView(k).fields.finalURL = Null
            /\ ResultView(k).fields.sourceServer = Null
            /\ ResultView(k).fields.targetServer = Null

\* ------------------------------------------------------- the error taxonomy
\* The kind of failure an exception of the model stands for.
KindOfException(e) ==
    CASE e = TimeoutError -> "TimeoutError"
      [] e.message = "net::ERR_TOO_MANY_REDIRECTS" -> "TooManyRedirectsError"
      [] e.message = "net::ERR_NAME_NOT_RESOLVED" -> "TransportError"
      [] OTHER -> "UnknownError"

\* The kind a failure descriptor names to the reader of the result.
KindOfDescriptor(error) ==
    CASE error = "Timeout" -> "TimeoutError"
      [] error = "net::ERR_TOO_MANY_REDIRECTS" -> "TooManyRedirectsError"
      [] error = "net::ERR_NAME_NOT_RESOLVED" -> "TransportError"
      [] OTHER -> "UnknownError"

\* C21 (Spec): the failure descriptor of every failed result names the kind
\* of the failure that was caught: a timeout, the redirect-loop guard, a
\* DNS or connection failure, or anything else.
C21_DescriptorNamesKind ==
    \A k \in 1..N :
        Failed(k) =>
            /\ result[k].error # Null
            /\ KindOfDescriptor(result[k].error) = KindOfException(caught[k].e)

\* C21 witness: the redirect-loop guard ended a navigation after MaxHops
\* hops and the result's descriptor is its message.
C21_Witness ==
    \E k \in 1..N :
        /\ pc[k] = "returned" /\ Failed(k)
        /\ KindOfException(caught[k].e) = "TooManyRedirectsError"
        /\ result[k].error = "net::ERR_TOO_MANY_REDIRECTS"
        /\ Len(redirectChain[k]) = MaxHops

\* ------------------------------------------- the navigation state machine
\* The states of one invocation: STARTED until page.goto is called,
\* NAVIGATING while it is pending, then the terminal state its exit chose.
Phase(k) ==
    CASE pc[k] = "idle" -> "NONE"
      [] pc[k] \in {"newContext", "newPage"} -> "STARTED"
      [] pc[k] = "goto" -> "NAVIGATING"
      [] OTHER -> IF ~Failed(k) THEN "COMPLETED"
                  ELSE IF caught[k].e = TimeoutError THEN "TIMED_OUT"
                  ELSE "FAILED"

TerminalPhases == {"COMPLETED", "TIMED_OUT", "FAILED"}

\* C22 (Spec): an invocation in a terminal state has been NAVIGATING (it
\* called page.goto), no invocation ends without a result, and a returned
\* result has the failure field set exactly when the state is not COMPLETED.
C22_StartedNavigatingTerminal ==
    \A k \in 1..N :
        /\ Phase(k) \in TerminalPhases => page[k]
        /\ pc[k] # "threw"
        /\ pc[k] = "returned" => (result[k].error # Null <=> Phase(k) # "COMPLETED")

\* C23 (Spec): the result an invocation returned after page.goto resolved
\* has the status of the last hop of its hop sequence as finalStatus and
\* the URL of the page as finalURL.
C23_CompletedTargetFields ==
    \A k \in 1..N :
        (pc[k] = "returned" /\ ~Failed(k)) =>
            /\ ResultView(k).redirectChain # <<>>
            /\ ResultView(k).fields.finalStatus = Last(ResultView(k).redirectChain).status
            /\ ResultView(k).fields.finalURL = PageUrl(k)

\* ------------------------------------------------------ the decision chain
\* The signals of the rules, read from a header set whose names differ in
\* more than letter case, and from the URL.
CaseDistinct(headers) ==
    \A a, b \in 1..Len(headers) : a # b => LowerAtom(headers[a].k) # LowerAtom(headers[b].k)

Has(headers, name) == Named(headers, name) # {}
Val(headers, name) ==
    IF Has(headers, name) THEN headers[CHOOSE j \in Named(headers, name) : TRUE].v ELSE <<>>
HasValue(headers, name) == Val(headers, name) # <<>>

DebugNames == {"x-akamai-request-id", "x-akamai-staging", "akamai-mon-ibit"}

\* Rule 1: x-cache names a cache hit. Miss: x-cache says TCP_MISS.
HitSignal(headers) == HasHitMarker(Val(headers, "x-cache"))
MissSignal(headers) == Includes(Val(headers, "x-cache"), <<"TCP_MISS">>)
\* Rule 2: a vendor debug header (with a value) and no miss.
DebugSignal(headers) == (\E n \in DebugNames : HasValue(headers, n)) /\ ~MissSignal(headers)
\* Rule 3: the Server header names the CDN / the origin stack, in any case.
ServerNames(headers, tokens) ==
    \E p \in 1..Len(Val(headers, "server")) : LowerAtom(Val(headers, "server")[p]) \in tokens
CdnServerSignal(headers) == ServerNames(headers, {"akamai", "ghost"})
ApacheSignal(headers) == ServerNames(headers, {"apache"})
\* Rule 4: a recognized hostname with an origin marker header, or with
\* cache-control and no x-cache header (HostSignal), no x-cache value
\* (HostSignalValue).
Recognized(url) == \E p \in 1..Len(Hostname(url)) : Hostname(url)[p] \in {"bmw", "mini"}
HostSignal(headers, url) ==
    /\ Recognized(url)
    /\ \/ Has(headers, "x-dispatcher") \/ Has(headers, "x-aem-instance")
       \/ Has(headers, "cache-control") /\ ~Has(headers, "x-cache")
HostSignalValue(headers, url) ==
    /\ Recognized(url)
    /\ \/ Has(headers, "x-dispatcher") \/ Has(headers, "x-aem-instance")
       \/ Has(headers, "cache-control") /\ ~HasValue(headers, "x-cache")
\* Rule 5: server-timing asserts a CDN cache hit.
TimingSignal(headers) ==
    \E p \in 1..Len(Val(headers, "server-timing")) :
        Val(headers, "server-timing")[p] = "cdn-cache; desc=HIT"
\* Rule 6: the address is inside 23.192.0.0/11, 104.64.0.0/10 or 184.24.0.0/13.
InCdnRange(ip) ==
    /\ ip # NoIp
    /\ \/ ip[1] = 23 /\ ip[2] \in 192..223
       \/ ip[1] = 104 /\ ip[2] \in 64..127
       \/ ip[1] = 184 /\ ip[2] \in 24..31

ClsInput == cls.stage = "input" /\ CaseDistinct(cls.headers)
AllCallsReturned(server) ==
    \A c \in 1..Len(cls.calls) : cls.calls[c].stage = "done" /\ cls.calls[c].server = server
NoCallReturned(server) == \A c \in 1..Len(cls.calls) : cls.calls[c].server # server

\* C24 (SpecClassify): a call whose dns.lookup threw has returned all the
\* same, and its verdict is Unknown: rule 6 added nothing to the headers
\* that had decided nothing.
C24_LookupFailureGivesUnknown ==
    cls.stage = "input" =>
        \A c \in 1..Len(cls.calls) :
            (cls.calls[c].stage = "done" /\ cls.calls[c].rule6 /\ cls.calls[c].ip = NoIp) =>
                cls.calls[c].server = ServerType.UNKNOWN

\* C24 witness: a header set with a server-timing entry that asserts no
\* hit and no TCP_MISS; the lookup of its hostname threw and the call
\* returned Unknown.
C24_Witness ==
    /\ cls.stage = "input" /\ Has(cls.headers, "server-timing") /\ ~MissSignal(cls.headers)
    /\ Len(cls.calls) > 0
    /\ cls.calls[1].stage = "done" /\ cls.calls[1].rule6 /\ cls.calls[1].ip = NoIp
    /\ cls.calls[1].server = ServerType.UNKNOWN

C26_ServerHeaderDecides ==
    ( /\ ClsInput
      /\ ~HitSignal(cls.headers) /\ ~DebugSignal(cls.headers) ) =>
        /\ CdnServerSignal(cls.headers) => AllCallsReturned(ServerType.AKAMAI)
        /\ (ApacheSignal(cls.headers) /\ ~CdnServerSignal(cls.headers)) =>
              AllCallsReturned(ServerType.AEM)

\* C26 witness: "Server: Apache" beside a server-timing cache hit on a
\* hostname no origin rule knows, classified origin.
C26_Witness ==
    /\ ClsInput /\ cls.url = "https://cdn.example.org/"
    /\ Val(cls.headers, "server") = <<"Apache">> /\ TimingSignal(cls.headers)
    /\ Len(cls.calls) > 0 /\ cls.calls[1].server = ServerType.AEM

C28_ServerTimingAfterOrigin ==
    ( /\ ClsInput
      /\ ~HitSignal(cls.headers) /\ ~DebugSignal(cls.headers)
      /\ ~CdnServerSignal(cls.headers)
      /\ TimingSignal(cls.headers) ) =>
        IF ApacheSignal(cls.headers) \/ HostSignalValue(cls.headers, cls.url)
        THEN AllCallsReturned(ServerType.AEM)
        ELSE AllCallsReturned(ServerType.AKAMAI)

\* C28 witness: a server-timing cache hit beside a TCP_MISS x-cache, with
\* no other signal, classified Akamai.
C28_Witness ==
    /\ ClsInput /\ TimingSignal(cls.headers) /\ MissSignal(cls.headers)
    /\ ~ApacheSignal(cls.headers) /\ ~HostSignalValue(cls.headers, cls.url)
    /\ Len(cls.calls) > 0 /\ cls.calls[1].server = ServerType.AKAMAI

\* C29 (SpecClassify): a call that no rule before rule 6 decided returns
\* Akamai when the address it got is inside a CDN range and x-cache does
\* not say TCP_MISS, and Unknown in every other case.
C29_IpRangeFallback ==
    ClsInput =>
        \A c \in 1..Len(cls.calls) :
            (cls.calls[c].stage = "done" /\ cls.calls[c].rule6) =>
                cls.calls[c].server =
                    IF InCdnRange(cls.calls[c].ip) /\ ~MissSignal(cls.headers)
                    THEN ServerType.AKAMAI ELSE ServerType.UNKNOWN

\* C29 witness: 23.224.0.1, the first address past 23.192.0.0/11, gave
\* Unknown for a header set without TCP_MISS.
C29_Witness ==
    /\ ClsInput /\ ~MissSignal(cls.headers) /\ Len(cls.calls) > 0
    /\ cls.calls[1].stage = "done" /\ cls.calls[1].rule6
    /\ cls.calls[1].ip = <<23, 224, 0, 1>>
    /\ cls.calls[1].server = ServerType.UNKNOWN

\* C30 (SpecClassify): a call that received the header names in their
\* other letter case went through the same rules as one that received
\* them as they are, and with the same address returned the same verdict.
C30_HeaderNamesCaseInsensitive ==
    ClsInput =>
        \A a, b \in 1..Len(cls.calls) :
            ( /\ cls.calls[a].stage = "done" /\ cls.calls[b].stage = "done"
              /\ ~cls.calls[a].swapped /\ cls.calls[b].swapped ) =>
                /\ cls.calls[a].rule6 = cls.calls[b].rule6
                /\ cls.calls[a].ip = cls.calls[b].ip =>
                      cls.calls[a].server = cls.calls[b].server

\* C30 witness: "X-Cache: TCP_MEM_HIT" and then "x-cache: TCP_MEM_HIT",
\* both classified Akamai.
C30_Witness ==
    /\ ClsInput /\ cls.swap /\ Len(cls.calls) = 2
    /\ \E j \in 1..Len(cls.headers) :
          cls.headers[j].k = "X-Cache" /\ cls.headers[j].v = <<"TCP_MEM_HIT">>
    /\ ~cls.calls[1].swapped /\ cls.calls[2].swapped
    /\ cls.calls[1].server = ServerType.AKAMAI /\ cls.calls[2].server = ServerType.AKAMAI

\* ------------------------------------------------------------ resolveIp
\* Call c of the sequence reached `await dns.lookup` and the lookup threw.
LookupFailed(c) ==
    /\ c \in 1..Len(cls.calls)
    /\ cls.calls[c].stage = "done" /\ cls.calls[c].rule6 /\ cls.calls[c].ip = NoIp
    /\ Hostname(cls.url) # <<>>

\* C31: a resolve call whose DNS lookup fails returns null and leaves the IP
\* cache as it was, and a failure is never cached: a call that reaches
\* resolveIp after a failed one, while no lookup for the hostname has
\* succeeded, issues a new dns.lookup.
C31_FailedLookupNotCached ==
    [][ /\ \A c \in 1..Len(cls.calls) :
              (cls.calls[c].stage = "dns" /\ cls'.calls[c].stage = "done"
                  /\ cls'.calls[c].ip = NoIp) => ipCache' = ipCache
        /\ ( /\ Len(cls'.calls) = Len(cls.calls) + 1
             /\ cls'.calls[Len(cls'.calls)].rule6
             /\ \E c \in 1..Len(cls.calls) : LookupFailed(c)
             /\ \A c \in 1..Len(cls.calls) : cls.calls[c].ip = NoIp )
           => /\ cls'.calls[Len(cls'.calls)].stage = "dns"
              /\ lookups'[Hostname(cls.url)] = lookups[Hostname(cls.url)] + 1 ]_vars
\* The first call's lookup failed, and the second call is in a lookup of its own.
C31_Witness ==
    /\ cls.stage = "input" /\ Len(cls.calls) = 2
    /\ LookupFailed(1)
    /\ cls.calls[2].stage = "dns"
    /\ lookups[Hostname(cls.url)] = 2
    /\ ipCache[Hostname(cls.url)] = NoIp

\* ------------------------------------------------------------ elapsed times
\* C32 (SpecTime): in every returned result, at every moment after its
\* return, the timestamp of each hop is at most the result's totalTime.
C32_HopTimeWithinTotalTime ==
    \A k \in 1..N : pc[k] = "returned" =>
        \A h \in 1..Len(ResultView(k).redirectChain) :
            ResultView(k).redirectChain[h].timestamp <= ResultView(k).fields.totalTime

\* ------------------------------------------------------------- termination
\* C33 (SpecRunFair): when page.goto and context.close settle, a run whose
\* browser was launched eventually has finished every window and closed the
\* browser, and the browser is closed only when no context of any window is
\* still open.
C33_RunFinishesAndClosesBrowser ==
    /\ [](mainPc = "loop" => <>(browser = "closed" /\ \A k \in 1..N : pc[k] = "returned"))
    /\ [](browser = "closed" => \A k \in 1..N : context[k] # "open")

\* ------------------------------------------------------------ history.json
\* C34 (SpecHistory): the list a run writes has at most 50 entries, the
\* run's own entry is first, and the rest is the list the run read, in its
\* order, without its oldest entries where 50 would be exceeded.
C34_HistoryNewestFirstAtMostFifty ==
    [][ (hist'.runs = hist.runs + 1 /\ hist'.wrote) =>
          LET old == ReadHistory(hist.file)
              new == hist'.file.entries
          IN  /\ hist'.file.kind = "list"
              /\ Len(new) <= 50
              /\ Len(new) = Min(50, Len(old) + 1)
              /\ new[1] = hist'.runs
              /\ IsPrefix(Tail(new), old) ]_vars
\* The third run in a row has written a full list: its entry first, the
\* oldest of the list it read gone.
C34_Witness ==
    /\ hist.stage = "runs" /\ hist.runs = 3 /\ hist.wrote
    /\ Len(hist.file.entries) = 50
    /\ hist.file.entries[1] = 3 /\ hist.file.entries[2] = 2
    /\ hist.file.entries[50] = -46

\* --------------------------------------------------------- the API handler
\* The request names a configured user and carries that user's password.
ValidCredentials ==
    /\ api.username \in DOMAIN USERS
    /\ api.password = USERS[api.username].pass

\* C35 (SpecApi): unless the username is a configured user and the password
\* is that user's password, the handler sends no request to GitHub and
\* returns 401, whatever the action and the payload.
C35_NoGitHubRequestWithoutCredentials ==
    (api.stage = "handler" /\ ~ValidCredentials) =>
        /\ api.requests = <<>>
        /\ api.pc = "done" => api.response.statusCode = 401

\* uploadToGitHub was entered: its first statement after the URL is the sha request.
ReachedUpload == api.requests # <<>> /\ api.requests[1] = "GET urls.txt"

\* C36 (SpecApi): an upload with valid credentials whose payload has more
\* non-blank lines than the user's limit sends nothing to GitHub and returns
\* 403; uploadToGitHub is entered only by an upload with valid credentials
\* whose non-blank lines are within the user's limit.
C36_UploadLimitEnforced ==
    api.stage = "handler" =>
        /\ ( /\ ValidCredentials /\ api.action = "upload" /\ api.payload # NoPayload
             /\ NonBlank(api.payload) > USERS[api.username].limit )
           => /\ api.requests = <<>>
              /\ api.pc = "done" => api.response.statusCode = 403
        /\ ReachedUpload
           => /\ api.action = "upload"
              /\ ValidCredentials
              /\ NonBlank(api.payload) <= USERS[api.username].limit

\* The runs queries uploadToGitHub has sent.
PollsSent == Len(SelectSeq(api.requests, LAMBDA q : q = "GET runs"))

\* The query's answer has a run created less than 60 seconds ago.
FoundNewRun(outcome) == outcome.kind = "run" /\ outcome.age < 60000

\* C37 (SpecApi, api.js): uploadToGitHub queries the runs only after the
\* upload succeeded, at most 5 times, each query after a wait of 3 seconds;
\* the first answer with a run created less than 60 seconds ago ends the
\* loop and is returned as 200 with that run's id, and no later query is
\* sent; when no answer has one the handler returns 500 with the file
\* uploaded.
C37_PollsForRunAtMostFiveTimes ==
    (api.stage = "handler" /\ api.version = "api.js" /\ api.action = "upload") =>
        /\ PollsSent > 0 => api.uploaded
        /\ PollsSent <= 5
        /\ api.waited = 3000 * PollsSent
        /\ \A j \in 1..Len(api.polls) :
              FoundNewRun(api.polls[j]) =>
                  /\ j = Len(api.polls) /\ j = PollsSent
                  /\ api.pc = "done"
                  /\ api.response = [statusCode |-> 200, runId |-> RunId(api.polls[j].age)]
        /\ (api.pc = "done" /\ api.uploaded /\ \A j \in 1..Len(api.polls) :
                                                  ~FoundNewRun(api.polls[j]))
           => api.response.statusCode = 500
\* The first answer had a run of 60 seconds, the second a run just younger:
\* 200 with the second run's id after two waits.
C37_Witness ==
    /\ api.stage = "handler" /\ api.version = "api.js" /\ api.pc = "done"
    /\ Len(api.polls) = 2
    /\ api.polls[1] = [kind |-> "run", age |-> 60000]
    /\ api.polls[2] = [kind |-> "run", age |-> 59999]
    /\ api.response = [statusCode |-> 200, runId |-> RunId(59999)]
    /\ api.waited = 6000

\* ------------------------------------------------------------ the frontend
\* C38 (SpecFrontend): for one call of waitForRunId, trackProgress is started
\* at most once and at most 20 polls are issued, also while several interval
\* callbacks await their answers at the same time.
C38_OneTrackerAtMostTwentyPolls ==
    fe.stage = "waitForRunId" => (fe.trackProgress <= 1 /\ fe.attempts <= 20)
====
